---- MODULE Spec2Model ----
(***************************************************************************)
(* Trajectory playback engine of mm_viz.                                   *)
(*                                                                         *)
(* Units.  Time is counted in ticks of 5 ms, so that the smallest product  *)
(* delta * playbackSpeed the model produces (0.05 s * 0.1) is one tick.    *)
(* Speeds are counted in tenths (0.1 -> 1, 1 -> 10, 10 -> 100).  Angles    *)
(* are counted in degrees (Math.PI -> 180).  Positions and angles of an    *)
(* interpolated pose are exact rationals [n, d]; floating-point rounding   *)
(* is not modelled.                                                        *)
(***************************************************************************)
EXTENDS Integers, Sequences, FiniteSets, TLC

\* ------------------------------------------------------------------------
\* Program constants
\* ------------------------------------------------------------------------

\* Math.min(delta, 0.1): 0.1 s = 20 ticks
DeltaCap == 20

\* Math.max(0.1, Math.min(10, speed)), in tenths
SpeedMin == 1

SpeedMax == 100

\* playbackSpeed: 1, in tenths; also the scale of the speed unit
SpeedOne == 10

\* Math.PI, in degrees
PI == 180

\* ------------------------------------------------------------------------
\* Bounds of the inputs
\* ------------------------------------------------------------------------

\* how far a seek request may lie outside [0, duration], in ticks
SeekOvershoot == 3

\* how many control calls one task (one event handler) may make before
\* React re-renders the components
MaxCallsPerTask == 2

\* ------------------------------------------------------------------------
\* Exact rational arithmetic (the numbers of a pose)
\* ------------------------------------------------------------------------

Abs(n) == IF n < 0 THEN -n ELSE n

RECURSIVE GCD(_, _)
GCD(a, b) == IF b = 0 THEN a ELSE GCD(b, a % b)

\* the rational n / d in lowest terms with a positive denominator (d # 0)
Frac(n, d) ==
    LET g == GCD(Abs(n), Abs(d))
        s == IF d < 0 THEN -1 ELSE 1
    IN  [n |-> (s * n) \div g, d |-> (s * d) \div g]

Int2Frac(i) == [n |-> i, d |-> 1]

FAdd(a, b) == Frac(a.n * b.d + b.n * a.d, a.d * b.d)

FSub(a, b) == Frac(a.n * b.d - b.n * a.d, a.d * b.d)

FMul(a, b) == Frac(a.n * b.n, a.d * b.d)

FLess(a, b) == a.n * b.d < b.n * a.d

FLeq(a, b) == a.n * b.d <= b.n * a.d

\* Math.trunc of a rational: integer division rounding toward zero
FTrunc(a) == IF a.n >= 0 THEN a.n \div a.d ELSE -((-a.n) \div a.d)

\* the JavaScript remainder a % m for an integer m > 0: the result has the
\* sign of the dividend
JSRem(a, m) == FSub(a, Int2Frac(m * FTrunc(Frac(a.n, a.d * m))))

\* ------------------------------------------------------------------------
\* Trajectory profiles: a Map<number, TrajectoryElement> is the sequence of
\* its entries in insertion order, keys unique
\* ------------------------------------------------------------------------

Elem(x, y, a) == [position |-> [x |-> Int2Frac(x), y |-> Int2Frac(y)], angle |-> Int2Frac(a)]

Entry(t, x, y, a) == [time |-> t, element |-> Elem(x, y, a)]

\* new Map()
EmptyProfile == << >>

\* keys 0, 4, 8 inserted out of order: (0,0) -> (1,0) -> (1,1), heading 0, 0, 90
ProfileA == << Entry(8, 1, 1, 90), Entry(0, 0, 0, 0), Entry(4, 1, 0, 0) >>

\* a shorter run whose first key is later than 0
ProfileB == << Entry(2, 2, 2, 170), Entry(6, 0, 2, -170) >>

Profiles == {EmptyProfile, ProfileA, ProfileB}

\* profile.keys()
Keys(profile) == [i \in DOMAIN profile |-> profile[i].time]

\* profile.get(key); keys are unique
Get(profile, key) == profile[CHOOSE i \in DOMAIN profile : profile[i].time = key].element

RECURSIVE InsertAsc(_, _)
InsertAsc(sorted, k) ==
    IF sorted = << >> THEN << k >>
    ELSE IF k - Head(sorted) < 0 THEN << k >> \o sorted
    ELSE << Head(sorted) >> \o InsertAsc(Tail(sorted), k)

RECURSIVE SortAsc(_)
\* Array.prototype.sort((a, b) => a - b)
SortAsc(s) == IF s = << >> THEN << >> ELSE InsertAsc(SortAsc(Tail(s)), Head(s))

Last(s) == s[Len(s)]

\* ------------------------------------------------------------------------
\* src/hooks/useTrajectoryAnimation.ts: locating and interpolating
\* ------------------------------------------------------------------------

\* timestamps[i] of a JavaScript array (0-based)
At0(timestamps, i) == timestamps[i + 1]

RECURSIVE BinarySearchLoop(_, _, _, _)
\* the while loop of binarySearchTimeIndex; timestamps[mid + 1] past the end
\* is undefined, and time < undefined is false
BinarySearchLoop(timestamps, time, left, right) ==
    IF ~(left <= right) THEN 0
    ELSE LET mid == (left + right) \div 2
         IN  IF /\ At0(timestamps, mid) <= time
                /\ mid + 1 < Len(timestamps)
                /\ time < At0(timestamps, mid + 1)
             THEN mid
             ELSE IF At0(timestamps, mid) < time
                  THEN BinarySearchLoop(timestamps, time, mid + 1, right)
                  ELSE BinarySearchLoop(timestamps, time, left, mid - 1)

RECURSIVE BinarySearchLoopEnds(_, _, _, _)
\* the while loop of binarySearchTimeIndex ends without returning, so that
\* the function reaches its last line, return 0
BinarySearchLoopEnds(timestamps, time, left, right) ==
    IF ~(left <= right) THEN TRUE
    ELSE LET mid == (left + right) \div 2
         IN  IF /\ At0(timestamps, mid) <= time
                /\ mid + 1 < Len(timestamps)
                /\ time < At0(timestamps, mid + 1)
             THEN FALSE
             ELSE IF At0(timestamps, mid) < time
                  THEN BinarySearchLoopEnds(timestamps, time, mid + 1, right)
                  ELSE BinarySearchLoopEnds(timestamps, time, left, mid - 1)

\* binarySearchTimeIndex(timestamps, time) reaches its last line
FallsThrough(timestamps, time) ==
    LET right == Len(timestamps) - 1
    IN  /\ ~(time <= At0(timestamps, 0))
        /\ ~(time >= At0(timestamps, right))
        /\ BinarySearchLoopEnds(timestamps, time, 0, right)

\* binarySearchTimeIndex without the test of the upper end
binarySearchTimeIndexNoUpperEnd(timestamps, time) ==
    LET right == Len(timestamps) - 1
    IN  IF time <= At0(timestamps, 0) THEN 0
        ELSE BinarySearchLoop(timestamps, time, 0, right)

\* binarySearchTimeIndex(timestamps, time), timestamps not empty
binarySearchTimeIndex(timestamps, time) ==
    LET right == Len(timestamps) - 1
    IN  IF time <= At0(timestamps, 0) THEN 0
        ELSE IF time >= At0(timestamps, right) THEN right
        ELSE BinarySearchLoop(timestamps, time, 0, right)

\* diff of interpolateAngle: ((a2 - a1 + Math.PI * 3) % (Math.PI * 2)) - Math.PI
AngleDiff(a1, a2) ==
    FSub(JSRem(FAdd(FSub(a2, a1), Int2Frac(3 * PI)), 2 * PI), Int2Frac(PI))

\* interpolateAngle(a1, a2, t)
interpolateAngle(a1, a2, t) ==
    LET diff == AngleDiff(a1, a2)
    IN  FSub(JSRem(FAdd(FAdd(a1, FMul(diff, t)), Int2Frac(3 * PI)), 2 * PI), Int2Frac(PI))

\* { position: { x: 0, y: 0 }, angle: 0 }
OriginPose == [position |-> [x |-> Int2Frac(0), y |-> Int2Frac(0)], angle |-> Int2Frac(0)]

\* the interpolation with the y coordinate stepped by the x difference
InterpolatedStateStepsYByX(beforeElement, afterElement, t) ==
    [position |->
        [x |-> FAdd(beforeElement.position.x,
                    FMul(FSub(afterElement.position.x, beforeElement.position.x), t)),
         y |-> FAdd(beforeElement.position.y,
                    FMul(FSub(afterElement.position.x, beforeElement.position.x), t))],
     angle |-> interpolateAngle(beforeElement.angle, afterElement.angle, t)]

\* the state updateMouseStateForTime interpolates between two keyframes at
\* the fraction t
InterpolatedState(beforeElement, afterElement, t) ==
    [position |->
        [x |-> FAdd(beforeElement.position.x,
                    FMul(FSub(afterElement.position.x, beforeElement.position.x), t)),
         y |-> FAdd(beforeElement.position.y,
                    FMul(FSub(afterElement.position.y, beforeElement.position.y), t))],
     angle |-> interpolateAngle(beforeElement.angle, afterElement.angle, t)]

\* updateMouseStateForTime holding the keyframe before the time instead of
\* interpolating
MouseStateForTimeHoldsBefore(time, trajectoryProfile, sortedTimestamps) ==
    IF Len(sortedTimestamps) = 0 THEN OriginPose
    ELSE IF time <= sortedTimestamps[1]
         THEN Get(trajectoryProfile, sortedTimestamps[1])
    ELSE IF time >= Last(sortedTimestamps)
         THEN Get(trajectoryProfile, Last(sortedTimestamps))
    ELSE Get(trajectoryProfile,
             At0(sortedTimestamps, binarySearchTimeIndex(sortedTimestamps, time)))

\* the value updateMouseStateForTime(time, trajectoryProfile, sortedTimestamps)
\* writes to currentMouseStateRef.current
MouseStateForTime(time, trajectoryProfile, sortedTimestamps) ==
    IF Len(sortedTimestamps) = 0 THEN OriginPose
    ELSE IF time <= sortedTimestamps[1]
         THEN Get(trajectoryProfile, sortedTimestamps[1])
    ELSE IF time >= Last(sortedTimestamps)
         THEN Get(trajectoryProfile, Last(sortedTimestamps))
    ELSE LET beforeIndex   == binarySearchTimeIndex(sortedTimestamps, time)
             beforeTime    == At0(sortedTimestamps, beforeIndex)
             afterTime     == At0(sortedTimestamps, beforeIndex + 1)
             beforeElement == Get(trajectoryProfile, beforeTime)
             afterElement  == Get(trajectoryProfile, afterTime)
             t             == Frac(time - beforeTime, afterTime - beforeTime)
         IN  InterpolatedState(beforeElement, afterElement, t)

\* ------------------------------------------------------------------------
\* src/stores/dataStore.ts: the store's trajectory methods, as functions
\* from the store state to the sequence of states its set() calls produce
\* (every set() notifies the subscribers with the state it produced)
\* ------------------------------------------------------------------------

\* the state create() builds
InitialStore ==
    [trajectoryProfile |-> EmptyProfile,
     sortedTimestamps  |-> << >>,
     duration          |-> 0,
     isPlaying         |-> FALSE,
     playbackSpeed     |-> SpeedOne,
     isLoopEnabled     |-> FALSE,
     mouseState        |-> OriginPose]

Max(a, b) == IF a > b THEN a ELSE b

Min(a, b) == IF a < b THEN a ELSE b

\* setTrajectoryProfile(profile): one set() for the profile, the index, the
\* duration and isPlaying, then a second set() for mouseState
StoreSetTrajectoryProfile(s, profile) ==
    LET sortedTimestamps == SortAsc(Keys(profile))
        duration == IF Len(sortedTimestamps) > 0 THEN Last(sortedTimestamps) ELSE 0
        s1 == [s EXCEPT !.trajectoryProfile = profile,
                        !.sortedTimestamps  = sortedTimestamps,
                        !.duration          = duration,
                        !.isPlaying         = FALSE]
    IN  IF Len(sortedTimestamps) > 0
        THEN << s1, [s1 EXCEPT !.mouseState = Get(profile, sortedTimestamps[1])] >>
        ELSE << s1 >>

\* play() written as a toggle of isPlaying
StorePlayToggles(s) == << [s EXCEPT !.isPlaying = ~s.isPlaying] >>

\* play()
StorePlay(s) == << [s EXCEPT !.isPlaying = TRUE] >>

\* a pause() that does not reach the store
StorePauseLost(s) == << s >>

\* pause()
StorePause(s) == << [s EXCEPT !.isPlaying = FALSE] >>

\* stop(): set({ isPlaying: false }), then mouseState from the state read
\* before the first set()
StoreStop(s) ==
    LET s1 == [s EXCEPT !.isPlaying = FALSE]
    IN  IF Len(s.sortedTimestamps) > 0
        THEN << s1, [s1 EXCEPT !.mouseState = Get(s.trajectoryProfile, s.sortedTimestamps[1])] >>
        ELSE << s1 >>

\* setPlaybackSpeed(speed) without the lower end of the clamp
StoreSetPlaybackSpeedNoFloor(s, speed) ==
    LET clampedSpeed == Min(SpeedMax, speed)
    IN  << [s EXCEPT !.playbackSpeed = clampedSpeed] >>

\* setPlaybackSpeed(speed)
StoreSetPlaybackSpeed(s, speed) ==
    LET clampedSpeed == Max(SpeedMin, Min(SpeedMax, speed))
    IN  << [s EXCEPT !.playbackSpeed = clampedSpeed] >>

\* setLoopEnabled(enabled)
StoreSetLoopEnabled(s, enabled) == << [s EXCEPT !.isLoopEnabled = enabled] >>

\* clearAll()
StoreClearAll(s) == << InitialStore >>

\* ------------------------------------------------------------------------
\* Inputs
\* ------------------------------------------------------------------------

\* the longest duration among the profiles
MaxDuration == Last(SortAsc(Keys(ProfileA)))

\* times a caller seeks to: below 0, between keyframes, on a keyframe,
\* beyond the end
SeekTimes == {-SeekOvershoot, 3, 4, MaxDuration + SeekOvershoot}

\* speeds a caller asks for, in tenths: 0, 1, 100
SpeedInputs == {0, SpeedOne, 10 * SpeedMax}

\* frame deltas the host reports, in ticks: 0.05 s, 0.1 s, 0.3 s
DeltaInputs == {DeltaCap \div 2, DeltaCap, 3 * DeltaCap}

\* initialTime props of TrajectoryProvider
InitialTimes == {0, 2}

\* ------------------------------------------------------------------------
\* State
\* ------------------------------------------------------------------------

VARIABLES
    engine,               \* which provider the application mounted
    store,                \* the zustand store (dataStore.ts)
    observed,             \* the states the store's subscribers were notified
                          \* with during the last step, in order
    rendered,             \* the store values the components captured at
                          \* their last render (the closures of the hooks)
    currentTimeRef,       \* useTrajectoryAnimation: currentTimeRef.current
    currentMouseStateRef, \* useTrajectoryAnimation: currentMouseStateRef.current
    lastTimeRef,          \* TrajectoryAnimationController: lastTimeRef.current
    calls,                \* control calls made in the current task so far
    tp,                   \* the state of TrajectoryProvider.tsx
    calc,                 \* a call of one of the pure functions on its own:
                          \* the function, its arguments and its result
    ui,                   \* usePlaybackControls: the display state (useState)
    refProvider           \* the refs of the TrajectoryProvider that keeps its
                          \* state in refs, and the profile prop it was last
                          \* rendered with

vars == << engine, store, observed, rendered, currentTimeRef, currentMouseStateRef,
           lastTimeRef, calls, tp, calc, ui, refProvider >>

\* no function is being called on its own
NoCalc == [op |-> "none", args |-> << >>, result |-> << >>]

refVars == << currentTimeRef, currentMouseStateRef >>

\* usePlaybackControls: useState(false), useState(0), useState(1),
\* useState(false).  No handler and no frame reads the display state, so
\* Spec does not follow it (it stays as created); SpecControls does
UiCreated ==
    [isPlaying     |-> FALSE,
     currentTime   |-> 0,
     playbackSpeed |-> SpeedOne,
     isLoopEnabled |-> FALSE]

\* the refs of a ref-based TrajectoryProvider rendered with the given props
\* for the first time
RpMount(trajectoryProfile, initialTime, initialSpeed) ==
    LET sortedTimestamps == SortAsc(Keys(trajectoryProfile))
    IN  [trajectoryProfile    |-> trajectoryProfile,
         trajectoryProfileRef |-> trajectoryProfile,
         currentTimeRef       |-> initialTime,
         isPlayingRef         |-> FALSE,
         playbackSpeedRef     |-> initialSpeed,
         currentMouseStateRef |-> OriginPose,
         sortedTimestampsRef  |-> sortedTimestamps,
         durationRef          |-> IF Len(sortedTimestamps) > 0
                                  THEN Last(sortedTimestamps)
                                  ELSE 0]

\* the refProvider of an application that mounted another provider
RpUnmounted == RpMount(EmptyProfile, 0, SpeedOne)

\* ------------------------------------------------------------------------
\* src/providers/DataProvider.tsx: the mount effect
\* ------------------------------------------------------------------------

\* the store after the init effect ran with the given props
MountStore(initialTrajectoryProfile, initialSpeed, initialLoopEnabled) ==
    LET s1 == Last(StoreSetTrajectoryProfile(InitialStore, initialTrajectoryProfile))
        s2 == Last(StoreSetPlaybackSpeed(s1, initialSpeed))
    IN  Last(StoreSetLoopEnabled(s2, initialLoopEnabled))

\* currentTimeRef after the init effect: setCurrentTime(sortedTimestamps[0])
MountTime(initialTrajectoryProfile) ==
    LET sortedTimestamps == SortAsc(Keys(initialTrajectoryProfile))
    IN  IF Len(sortedTimestamps) > 0 THEN sortedTimestamps[1] ELSE 0

\* currentMouseStateRef after the init effect: { ...firstElement }
MountMouseState(initialTrajectoryProfile) ==
    LET sortedTimestamps == SortAsc(Keys(initialTrajectoryProfile))
    IN  IF Len(sortedTimestamps) > 0
        THEN Get(initialTrajectoryProfile, sortedTimestamps[1])
        ELSE OriginPose

\* ------------------------------------------------------------------------
\* src/providers/TrajectoryProvider.tsx
\* ------------------------------------------------------------------------

\* useState(initialTime), useState(false), useState(initialSpeed),
\* useRef(initialTime), and the trajectoryProfile prop
TpMount(trajectoryProfile, initialTime, initialSpeed) ==
    [trajectoryProfile |-> trajectoryProfile,
     currentTime       |-> initialTime,
     currentTimeRef    |-> initialTime,
     isPlaying         |-> FALSE,
     playbackSpeed     |-> initialSpeed]

\* the tp of an application that mounted DataProvider instead
TpUnmounted == TpMount(EmptyProfile, 0, SpeedOne)

\* useSortedTimestamps(trajectoryProfile)
TpSortedTimestamps == SortAsc(Keys(tp.trajectoryProfile))

\* duration (useMemo over sortedTimestamps)
TpDuration == IF Len(TpSortedTimestamps) > 0 THEN Last(TpSortedTimestamps) ELSE 0

\* currentMouseState: useInterpolatedMouseState(trajectoryProfile, currentTime,
\* sortedTimestamps), the same computation as updateMouseStateForTime
TpCurrentMouseState == MouseStateForTime(tp.currentTime, tp.trajectoryProfile, TpSortedTimestamps)

Init ==
    /\ engine \in {"DataProvider", "TrajectoryProvider"}
    /\ observed = << >>
    /\ lastTimeRef = 0
    /\ calls = 0
    /\ \/ /\ engine = "DataProvider"
          /\ \E p \in Profiles, sp \in SpeedInputs, loop \in BOOLEAN :
                /\ store = MountStore(p, sp, loop)
                /\ currentTimeRef = MountTime(p)
                /\ currentMouseStateRef = MountMouseState(p)
          /\ tp = TpUnmounted
       \/ /\ engine = "TrajectoryProvider"
          /\ store = InitialStore
          /\ currentTimeRef = 0
          /\ currentMouseStateRef = OriginPose
          /\ \E p \in Profiles, t \in InitialTimes, sp \in SpeedInputs :
                tp = TpMount(p, t, sp)
    /\ rendered = store
    /\ calc = NoCalc
    /\ ui = UiCreated
    /\ refProvider = RpUnmounted

\* ------------------------------------------------------------------------
\* Store methods called directly (useData((state) => state.play) ...)
\* ------------------------------------------------------------------------

\* a store method ran: the store is the last state it set, the subscribers
\* saw every state it set
StoreCall(states) ==
    /\ store' = Last(states)
    /\ observed' = states

\* a control call made by the running task
ControlCall ==
    /\ engine = "DataProvider"
    /\ calls < MaxCallsPerTask
    /\ calls' = calls + 1

SetTrajectoryProfile(profile) ==
    /\ ControlCall
    /\ StoreCall(StoreSetTrajectoryProfile(store, profile))
    /\ UNCHANGED << engine, calc, ui, refProvider, rendered, refVars, lastTimeRef, tp >>

Play ==
    /\ ControlCall
    /\ StoreCall(StorePlay(store))
    /\ UNCHANGED << engine, calc, ui, refProvider, rendered, refVars, lastTimeRef, tp >>

\* pause() that also rewinds the high-rate time, as a stop would
PauseRewinds ==
    /\ ControlCall
    /\ StoreCall(StorePause(store))
    /\ currentTimeRef' = 0
    /\ UNCHANGED << engine, calc, ui, refProvider, rendered, currentMouseStateRef, lastTimeRef, tp >>

Pause ==
    /\ ControlCall
    /\ StoreCall(StorePause(store))
    /\ UNCHANGED << engine, calc, ui, refProvider, rendered, refVars, lastTimeRef, tp >>

Stop ==
    /\ ControlCall
    /\ StoreCall(StoreStop(store))
    /\ UNCHANGED << engine, calc, ui, refProvider, rendered, refVars, lastTimeRef, tp >>

\* a setPlaybackSpeed(speed) that also rewinds the high-rate time
SetPlaybackSpeedRewinds(speed) ==
    /\ ControlCall
    /\ StoreCall(StoreSetPlaybackSpeed(store, speed))
    /\ currentTimeRef' = 0
    /\ UNCHANGED << engine, calc, ui, refProvider, rendered, currentMouseStateRef,
                    lastTimeRef, tp >>

SetPlaybackSpeed(speed) ==
    /\ ControlCall
    /\ StoreCall(StoreSetPlaybackSpeed(store, speed))
    /\ UNCHANGED << engine, calc, ui, refProvider, rendered, refVars, lastTimeRef, tp >>

SetLoopEnabled(enabled) ==
    /\ ControlCall
    /\ StoreCall(StoreSetLoopEnabled(store, enabled))
    /\ UNCHANGED << engine, calc, ui, refProvider, rendered, refVars, lastTimeRef, tp >>

ClearAll ==
    /\ ControlCall
    /\ StoreCall(StoreClearAll(store))
    /\ UNCHANGED << engine, calc, ui, refProvider, rendered, refVars, lastTimeRef, tp >>

\* ------------------------------------------------------------------------
\* src/hooks/usePlaybackControls.tsx: the handlers.  A handler reads the
\* store values of the render it was created in (rendered), not the store
\* ------------------------------------------------------------------------

\* togglePlayPause()
TogglePlayPause ==
    /\ ControlCall
    /\ IF rendered.isPlaying
       THEN StoreCall(StorePause(store))
       ELSE StoreCall(StorePlay(store))
    /\ UNCHANGED << engine, calc, ui, refProvider, rendered, refVars, lastTimeRef, tp >>

\* handleStop(): stop(), then the hook's own display state is reset
HandleStop ==
    /\ ControlCall
    /\ StoreCall(StoreStop(store))
    /\ UNCHANGED << engine, calc, ui, refProvider, rendered, refVars, lastTimeRef, tp >>

\* handleSeek that pauses whatever pauseAfterSeek says
HandleSeekAlwaysPauses(value, pauseAfterSeek) ==
    /\ ControlCall
    /\ currentTimeRef' = value
    /\ currentMouseStateRef' =
          MouseStateForTime(value, rendered.trajectoryProfile, rendered.sortedTimestamps)
    /\ StoreCall(StorePause(store))
    /\ UNCHANGED << engine, calc, ui, refProvider, rendered, lastTimeRef, tp >>

\* handleSeek(value, pauseAfterSeek)
HandleSeek(value, pauseAfterSeek) ==
    /\ ControlCall
    /\ currentTimeRef' = value
    /\ currentMouseStateRef' =
          MouseStateForTime(value, rendered.trajectoryProfile, rendered.sortedTimestamps)
    /\ IF pauseAfterSeek
       THEN StoreCall(StorePause(store))
       ELSE /\ store' = store
            /\ observed' = << >>
    /\ UNCHANGED << engine, calc, ui, refProvider, rendered, lastTimeRef, tp >>

\* handleSpeedChange(speed)
HandleSpeedChange(speed) ==
    /\ ControlCall
    /\ StoreCall(StoreSetPlaybackSpeed(store, speed))
    /\ UNCHANGED << engine, calc, ui, refProvider, rendered, refVars, lastTimeRef, tp >>

\* handleLoopToggle()
HandleLoopToggle ==
    /\ ControlCall
    /\ StoreCall(StoreSetLoopEnabled(store, ~rendered.isLoopEnabled))
    /\ UNCHANGED << engine, calc, ui, refProvider, rendered, refVars, lastTimeRef, tp >>

\* ------------------------------------------------------------------------
\* React: the components re-render with the store's current values.  The
\* re-render a store change schedules runs after the task that made the
\* change, so the calls made in one task see stale closures.  Under Spec a
\* frame is a task of its own and runs after that re-render; SpecSameTask
\* also lets the frame callback run in the task of the calls (FrameInTask)
\* ------------------------------------------------------------------------

Render ==
    /\ engine = "DataProvider"
    /\ rendered # store
    /\ rendered' = store
    /\ observed' = << >>
    /\ calls' = 0
    /\ UNCHANGED << engine, calc, ui, refProvider, store, refVars, lastTimeRef, tp >>

\* ------------------------------------------------------------------------
\* src/components/MicromouseVisualizer/TrajectoryAnimationController.tsx
\* ------------------------------------------------------------------------

\* timeSinceLastFrame * playbackSpeed, in ticks
Scaled(delta, playbackSpeed) == (delta * playbackSpeed) \div SpeedOne

\* cappedDelta
CappedDelta(delta) == Min(delta, DeltaCap)

\* nextTime of a frame whose closure holds the store values of view
NextTimeFor(view, delta) ==
    LET timeSinceLastFrame == IF lastTimeRef = 0 THEN 0 ELSE CappedDelta(delta)
    IN  currentTimeRef + Scaled(timeSinceLastFrame, view.playbackSpeed)

\* nextTime of a frame that found isPlaying true
NextTime(delta) == NextTimeFor(rendered, delta)

\* the body of the useFrame callback; isPlaying, playbackSpeed, isLoopEnabled,
\* duration, trajectoryProfile and sortedTimestamps are the values of view
FrameStep(view, delta) ==
    /\ engine = "DataProvider"
    /\ IF ~view.isPlaying
       THEN /\ lastTimeRef' = 0
            /\ observed' = << >>
            /\ UNCHANGED << store, refVars >>
       ELSE LET nextTime == NextTimeFor(view, delta)
            IN  IF nextTime >= view.duration
                THEN /\ IF view.isLoopEnabled
                        THEN /\ currentTimeRef' = 0
                             /\ currentMouseStateRef' =
                                   MouseStateForTime(0, view.trajectoryProfile,
                                                     view.sortedTimestamps)
                             /\ store' = store
                             /\ observed' = << >>
                        ELSE /\ currentTimeRef' = view.duration
                             /\ currentMouseStateRef' =
                                   MouseStateForTime(view.duration, view.trajectoryProfile,
                                                     view.sortedTimestamps)
                             /\ StoreCall(StorePause(store))
                     /\ lastTimeRef' = 0
                ELSE /\ currentTimeRef' = nextTime
                     /\ currentMouseStateRef' =
                           MouseStateForTime(nextTime, view.trajectoryProfile,
                                             view.sortedTimestamps)
                     /\ lastTimeRef' = CappedDelta(delta)
                     /\ store' = store
                     /\ observed' = << >>
    /\ calls' = 0
    /\ UNCHANGED << engine, calc, ui, refProvider, rendered, tp >>

\* the useFrame callback, run in a task of its own: the components have
\* re-rendered since the last store change, its closure is up to date
Frame(delta) ==
    /\ rendered = store
    /\ FrameStep(rendered, delta)

\* the useFrame callback, run in the task that made control calls (a
\* useFrame subscriber ahead of the controller, an input event dispatched at
\* the start of the frame): the components have not re-rendered, the closure
\* is the one of the last render
FrameInTask(delta) ==
    /\ calls > 0
    /\ rendered # store
    /\ FrameStep(rendered, delta)

\* ------------------------------------------------------------------------
\* The Mouse component: the pose its useFrame callback applies to the
\* scene object.  view holds the store values of the component's last
\* render; propMouseState is the optional mouseState prop, << >> when the
\* prop is absent
\* ------------------------------------------------------------------------

\* a Mouse rendered without the mouseState prop (it takes the pose from the
\* DataProvider)
NoMouseStateProp == << >>

\* staticMouseState = propMouseState || dataMouseState
StaticMouseState(view, propMouseState) ==
    IF propMouseState # << >> THEN propMouseState[1] ELSE view.mouseState

\* the Mouse that reads the ref only while playing
\* (if (isPlaying && currentMouseStateRef.current))
MousePoseWhilePlaying(view, propMouseState) ==
    IF view.isPlaying
    THEN currentMouseStateRef
    ELSE StaticMouseState(view, propMouseState)

\* the Mouse that reads the ref whenever a profile is installed
\* (hasTrajectoryData = trajectoryProfile && trajectoryProfile.size > 0 && ...)
MousePoseWithProfile(view, propMouseState) ==
    IF Len(view.trajectoryProfile) > 0
    THEN currentMouseStateRef
    ELSE StaticMouseState(view, propMouseState)

\* ------------------------------------------------------------------------
\* src/providers/TrajectoryProvider.tsx: the control functions and the
\* requestAnimationFrame loop
\* ------------------------------------------------------------------------

dpVars == << store, observed, rendered, refVars, lastTimeRef, calls >>

\* the provider state play() leaves when called in state t
TpPlayResult(t) ==
    LET duration == IF Len(t.trajectoryProfile) > 0
                    THEN Last(SortAsc(Keys(t.trajectoryProfile)))
                    ELSE 0
    IN  IF t.isPlaying THEN t
        ELSE IF t.currentTimeRef >= duration
             THEN [t EXCEPT !.isPlaying = TRUE, !.currentTimeRef = 0, !.currentTime = 0]
             ELSE [t EXCEPT !.isPlaying = TRUE]

\* play()
TpPlay ==
    /\ engine = "TrajectoryProvider"
    /\ ~tp.isPlaying
    /\ tp' = TpPlayResult(tp)
    /\ UNCHANGED << engine, calc, ui, refProvider, dpVars >>

\* pause()
TpPause ==
    /\ engine = "TrajectoryProvider"
    /\ tp' = [tp EXCEPT !.isPlaying = FALSE]
    /\ UNCHANGED << engine, calc, ui, refProvider, dpVars >>

\* stop()
TpStop ==
    /\ engine = "TrajectoryProvider"
    /\ tp' = [tp EXCEPT !.isPlaying = FALSE, !.currentTimeRef = 0, !.currentTime = 0]
    /\ UNCHANGED << engine, calc, ui, refProvider, dpVars >>

\* seekTo(time)
TpSeekTo(time) ==
    /\ engine = "TrajectoryProvider"
    /\ LET clampedTime == Max(0, Min(time, TpDuration))
       IN  tp' = [tp EXCEPT !.currentTimeRef = clampedTime, !.currentTime = clampedTime]
    /\ UNCHANGED << engine, calc, ui, refProvider, dpVars >>

\* setSpeed(speed), exposed as setPlaybackSpeed
TpSetSpeed(speed) ==
    /\ engine = "TrajectoryProvider"
    /\ tp' = [tp EXCEPT !.playbackSpeed = Max(SpeedMin, Min(SpeedMax, speed))]
    /\ UNCHANGED << engine, calc, ui, refProvider, dpVars >>

\* animate(now): deltaTime is the time since the previous frame (or since
\* play()); renderDue says whether RENDER_INTERVAL has passed
TpAnimate(deltaTime, renderDue) ==
    /\ engine = "TrajectoryProvider"
    /\ tp.isPlaying
    /\ LET advanced == tp.currentTimeRef + Scaled(deltaTime, tp.playbackSpeed)
           looped   == IF advanced >= TpDuration THEN 0 ELSE advanced
       IN  tp' = IF renderDue
                 THEN [tp EXCEPT !.currentTimeRef = looped, !.currentTime = looped]
                 ELSE [tp EXCEPT !.currentTimeRef = looped]
    /\ UNCHANGED << engine, calc, ui, refProvider, dpVars >>

\* ------------------------------------------------------------------------
\* Specification
\* ------------------------------------------------------------------------

Next ==
    \/ \E p \in Profiles : SetTrajectoryProfile(p)
    \/ Play
    \/ Pause
    \/ Stop
    \/ \E sp \in SpeedInputs : SetPlaybackSpeed(sp)
    \/ \E b \in BOOLEAN : SetLoopEnabled(b)
    \/ ClearAll
    \/ TogglePlayPause
    \/ HandleStop
    \/ \E t \in SeekTimes, b \in BOOLEAN : HandleSeek(t, b)
    \/ \E sp \in SpeedInputs : HandleSpeedChange(sp)
    \/ HandleLoopToggle
    \/ Render
    \/ \E d \in DeltaInputs : Frame(d)
    \/ TpPlay
    \/ TpPause
    \/ TpStop
    \/ \E t \in SeekTimes : TpSeekTo(t)
    \/ \E sp \in SpeedInputs : TpSetSpeed(sp)
    \/ \E d \in DeltaInputs, b \in BOOLEAN : TpAnimate(d, b)

Spec == Init /\ [][Next]_vars

\* what a frame that finds the engine Playing does to the clock
\* (currentTimeRef and lastTimeRef) and to the store, the pose left aside
FrameClock(delta) ==
    /\ engine = "DataProvider"
    /\ rendered = store
    /\ rendered.isPlaying
    /\ LET nextTime == NextTime(delta)
       IN  IF nextTime >= rendered.duration
           THEN /\ IF rendered.isLoopEnabled
                   THEN /\ currentTimeRef' = 0
                        /\ store' = store
                   ELSE /\ currentTimeRef' = rendered.duration
                        /\ store' = Last(StorePause(store))
                /\ lastTimeRef' = 0
           ELSE /\ currentTimeRef' = nextTime
                /\ lastTimeRef' = CappedDelta(delta)
                /\ store' = store

\* the host keeps calling the frame callback: a frame that would move the
\* clock or pause the engine is not put off for ever
SpecFrames ==
    Spec /\ WF_<< currentTimeRef, lastTimeRef, store >>(\E d \in DeltaInputs : FrameClock(d))

\* the engine when a frame may also run in the task of the control calls
\* before it
NextSameTask ==
    \/ Next
    \/ \E d \in DeltaInputs : FrameInTask(d)

SpecSameTask == Init /\ [][NextSameTask]_vars

\* ------------------------------------------------------------------------
\* The TrajectoryProvider that keeps its state in refs (useRef instead of
\* useState).  useRef(initialValue) uses initialValue at the first render
\* only, and every callback is memoised with no dependencies
\* ------------------------------------------------------------------------

otherVars == << store, observed, rendered, refVars, lastTimeRef, calls, tp, calc, ui >>

\* play()
RpPlay ==
    /\ engine = "RefTrajectoryProvider"
    /\ ~refProvider.isPlayingRef
    /\ refProvider' =
          IF refProvider.currentTimeRef >= refProvider.durationRef
          THEN [refProvider EXCEPT !.currentTimeRef = 0, !.isPlayingRef = TRUE]
          ELSE [refProvider EXCEPT !.isPlayingRef = TRUE]
    /\ UNCHANGED << engine, otherVars >>

\* pause()
RpPause ==
    /\ engine = "RefTrajectoryProvider"
    /\ refProvider' = [refProvider EXCEPT !.isPlayingRef = FALSE]
    /\ UNCHANGED << engine, otherVars >>

\* stop()
RpStop ==
    /\ engine = "RefTrajectoryProvider"
    /\ refProvider' =
          IF Len(refProvider.sortedTimestampsRef) > 0
          THEN [refProvider EXCEPT
                   !.isPlayingRef = FALSE,
                   !.currentTimeRef = 0,
                   !.currentMouseStateRef =
                       Get(refProvider.trajectoryProfileRef,
                           refProvider.sortedTimestampsRef[1])]
          ELSE [refProvider EXCEPT !.isPlayingRef = FALSE, !.currentTimeRef = 0]
    /\ UNCHANGED << engine, otherVars >>

\* seekTo(time)
RpSeekTo(time) ==
    /\ engine = "RefTrajectoryProvider"
    /\ LET clampedTime == Max(0, Min(time, refProvider.durationRef))
       IN  refProvider' =
              [refProvider EXCEPT
                  !.currentTimeRef = clampedTime,
                  !.currentMouseStateRef =
                      MouseStateForTime(clampedTime, refProvider.trajectoryProfileRef,
                                        refProvider.sortedTimestampsRef)]
    /\ UNCHANGED << engine, otherVars >>

\* setPlaybackSpeed(speed)
RpSetPlaybackSpeed(speed) ==
    /\ engine = "RefTrajectoryProvider"
    /\ refProvider' =
          [refProvider EXCEPT !.playbackSpeedRef = Max(SpeedMin, Min(SpeedMax, speed))]
    /\ UNCHANGED << engine, otherVars >>

\* the parent renders the provider with another trajectoryProfile prop: the
\* refs keep what they hold
RpRenderWithProfile(trajectoryProfile) ==
    /\ engine = "RefTrajectoryProvider"
    /\ trajectoryProfile # refProvider.trajectoryProfile
    /\ refProvider' = [refProvider EXCEPT !.trajectoryProfile = trajectoryProfile]
    /\ UNCHANGED << engine, otherVars >>

InitRefProvider ==
    /\ engine = "RefTrajectoryProvider"
    /\ store = InitialStore
    /\ rendered = InitialStore
    /\ observed = << >>
    /\ currentTimeRef = 0
    /\ currentMouseStateRef = OriginPose
    /\ lastTimeRef = 0
    /\ calls = 0
    /\ tp = TpUnmounted
    /\ calc = NoCalc
    /\ ui = UiCreated
    /\ \E p \in Profiles, t \in InitialTimes, sp \in SpeedInputs :
          refProvider = RpMount(p, t, sp)

NextRefProvider ==
    \/ RpPlay
    \/ RpPause
    \/ RpStop
    \/ \E t \in SeekTimes : RpSeekTo(t)
    \/ \E sp \in SpeedInputs : RpSetPlaybackSpeed(sp)
    \/ \E p \in Profiles : RpRenderWithProfile(p)

SpecRefProvider == InitRefProvider /\ [][NextRefProvider]_vars

\* ------------------------------------------------------------------------
\* src/hooks/usePlaybackControls.tsx with its display state: the handlers
\* also set the hook's useState cells, the sync effect copies the store
\* values into them after a render in which one of its dependencies
\* changed, and an interval copies currentTimeRef.current every 50 ms.
\* ui holds the cells with the updates queued for the next render applied
\* ------------------------------------------------------------------------

\* what the handlers and the frame callback leave alone
controlsFrame == << engine, calc, refProvider, tp >>

\* togglePlayPause()
UiTogglePlayPause ==
    /\ ControlCall
    /\ IF rendered.isPlaying
       THEN /\ StoreCall(StorePause(store))
            /\ ui' = [ui EXCEPT !.isPlaying = FALSE]
       ELSE /\ StoreCall(StorePlay(store))
            /\ ui' = [ui EXCEPT !.isPlaying = TRUE]
    /\ UNCHANGED << controlsFrame, rendered, refVars, lastTimeRef >>

\* handleStop()
UiHandleStop ==
    /\ ControlCall
    /\ StoreCall(StoreStop(store))
    /\ ui' = [ui EXCEPT !.isPlaying = FALSE, !.currentTime = 0]
    /\ UNCHANGED << controlsFrame, rendered, refVars, lastTimeRef >>

\* handleSeek(value, pauseAfterSeek)
UiHandleSeek(value, pauseAfterSeek) ==
    /\ ControlCall
    /\ currentTimeRef' = value
    /\ currentMouseStateRef' =
          MouseStateForTime(value, rendered.trajectoryProfile, rendered.sortedTimestamps)
    /\ IF pauseAfterSeek
       THEN StoreCall(StorePause(store))
       ELSE /\ store' = store
            /\ observed' = << >>
    /\ UNCHANGED << controlsFrame, ui, rendered, lastTimeRef >>

\* handleSpeedChange(speed): the store clamps, the display cell takes the
\* argument as it is
UiHandleSpeedChange(speed) ==
    /\ ControlCall
    /\ StoreCall(StoreSetPlaybackSpeed(store, speed))
    /\ ui' = [ui EXCEPT !.playbackSpeed = speed]
    /\ UNCHANGED << controlsFrame, rendered, refVars, lastTimeRef >>

\* handleLoopToggle()
UiHandleLoopToggle ==
    /\ ControlCall
    /\ StoreCall(StoreSetLoopEnabled(store, ~rendered.isLoopEnabled))
    /\ ui' = [ui EXCEPT !.isLoopEnabled = ~rendered.isLoopEnabled]
    /\ UNCHANGED << controlsFrame, rendered, refVars, lastTimeRef >>

\* the dependencies of the sync effect, as selected from the store state s
SyncDeps(s) ==
    << s.isPlaying, s.duration, s.playbackSpeed, s.isLoopEnabled, s.sortedTimestamps >>

\* the display cells after the sync effect ran with the store state s
Synced(cells, s) ==
    [cells EXCEPT !.isPlaying     = s.isPlaying,
                  !.playbackSpeed = s.playbackSpeed,
                  !.isLoopEnabled = s.isLoopEnabled]

\* the task that made control calls is over: React renders the components
\* with the store's values and the queued display updates, and runs the
\* sync effect if one of its dependencies differs from the render before
UiRender ==
    /\ engine = "DataProvider"
    /\ calls > 0 \/ rendered # store
    /\ rendered' = store
    /\ ui' = IF SyncDeps(store) # SyncDeps(rendered) THEN Synced(ui, store) ELSE ui
    /\ observed' = << >>
    /\ calls' = 0
    /\ UNCHANGED << controlsFrame, store, refVars, lastTimeRef >>

\* the components are rendered with the store's values and no control call
\* is waiting for a render
Quiescent == calls = 0 /\ rendered = store

\* the interval callback: setCurrentTime(currentTimeRef.current)
Poll ==
    /\ engine = "DataProvider"
    /\ Quiescent
    /\ ui' = [ui EXCEPT !.currentTime = currentTimeRef]
    /\ observed' = << >>
    /\ UNCHANGED << controlsFrame, store, rendered, refVars, lastTimeRef, calls >>

\* DataProvider mounted with usePlaybackControls below it: the sync effect
\* has run with the store the init effect left
InitControls ==
    /\ engine = "DataProvider"
    /\ observed = << >>
    /\ lastTimeRef = 0
    /\ calls = 0
    /\ \E p \in Profiles, sp \in SpeedInputs, loop \in BOOLEAN :
          /\ store = MountStore(p, sp, loop)
          /\ currentTimeRef = MountTime(p)
          /\ currentMouseStateRef = MountMouseState(p)
    /\ rendered = store
    /\ ui = Synced(UiCreated, store)
    /\ tp = TpUnmounted
    /\ calc = NoCalc
    /\ refProvider = RpUnmounted

NextControls ==
    \/ UiTogglePlayPause
    \/ UiHandleStop
    \/ \E t \in SeekTimes, b \in BOOLEAN : UiHandleSeek(t, b)
    \/ \E sp \in SpeedInputs : UiHandleSpeedChange(sp)
    \/ UiHandleLoopToggle
    \/ UiRender
    \/ \E d \in DeltaInputs : Frame(d)
    \/ Poll

SpecControls == InitControls /\ [][NextControls]_vars

\* React renders after every task that asked for it, and the interval keeps
\* firing
SpecControlsFair == SpecControls /\ WF_vars(UiRender) /\ SF_vars(Poll)

\* ------------------------------------------------------------------------
\* src/hooks/useTrajectoryAnimation.ts: the pure functions called on their
\* own, on inputs drawn from bounded sets (no provider is mounted)
\* ------------------------------------------------------------------------

\* how many distinct timestamps the arrays are built from
MaxStamps == 4

\* how many quarter turns a heading may lie away from 0
MaxQuarterTurns == 4

\* the timestamps are even, so that a query falls on one or between two
StampValues == {2 * i : i \in 0 .. MaxStamps - 1}

RECURSIVE AscendingSeq(_)
\* the elements of a finite set of numbers in ascending order
AscendingSeq(S) ==
    IF S = {} THEN << >>
    ELSE LET m == CHOOSE x \in S : \A y \in S : x <= y
         IN  << m >> \o AscendingSeq(S \ {m})

\* the non-empty strictly ascending timestamp arrays
TimestampArrays == {AscendingSeq(S) : S \in (SUBSET StampValues) \ {{}}}

\* the query times: below, on, between and above the timestamps
QueryTimes == -1 .. (2 * MaxStamps - 1)

\* headings, normalised and not: multiples of a quarter turn
Headings == {q * (PI \div 2) : q \in -MaxQuarterTurns .. MaxQuarterTurns}

\* interpolation fractions in [0, 1]
Fractions == {Frac(0, 1), Frac(1, 2), Frac(1, 1)}

\* the keyframes interpolated between: two positions, any two headings
KeyframePairs ==
    {<< Elem(0, 0, h1), Elem(1, 2, h2) >> : h1 \in Headings, h2 \in Headings}

\* a profile of three keyframes, at 0, 2 and 4, inserted out of order
ThreeKeyframes(h1, h2) ==
    << Entry(2, 1, 2, h1), Entry(4, 0, 1, h2), Entry(0, 0, 0, 0) >>

\* a call that has not run yet
Pending(op, args) == [op |-> op, args |-> args, result |-> << >>]

InitFunctions ==
    /\ engine = "None"
    /\ store = InitialStore
    /\ rendered = InitialStore
    /\ observed = << >>
    /\ currentTimeRef = 0
    /\ currentMouseStateRef = OriginPose
    /\ lastTimeRef = 0
    /\ calls = 0
    /\ tp = TpUnmounted
    /\ ui = UiCreated
    /\ refProvider = RpUnmounted
    /\ \/ \E timestamps \in TimestampArrays, time \in QueryTimes :
             calc = Pending("binarySearchTimeIndex", << timestamps, time >>)
       \/ \E a1 \in Headings, a2 \in Headings, t \in Fractions :
             calc = Pending("interpolateAngle", << Int2Frac(a1), Int2Frac(a2), t >>)
       \/ \E pair \in KeyframePairs, t \in Fractions :
             calc = Pending("interpolate", << pair[1], pair[2], t >>)
       \/ \E h1 \in Headings, h2 \in Headings, time \in QueryTimes :
             calc = Pending("updateMouseStateForTime", << time, ThreeKeyframes(h1, h2) >>)

\* the call returns
Return(value) ==
    /\ calc.result = << >>
    /\ calc' = [calc EXCEPT !.result = << value >>]
    /\ UNCHANGED << engine, store, observed, rendered, refVars, lastTimeRef, calls, tp,
                    ui, refProvider >>

CallBinarySearchTimeIndex ==
    /\ calc.op = "binarySearchTimeIndex"
    /\ Return(binarySearchTimeIndex(calc.args[1], calc.args[2]))

CallInterpolateAngle ==
    /\ calc.op = "interpolateAngle"
    /\ Return(interpolateAngle(calc.args[1], calc.args[2], calc.args[3]))

\* the interpolation of updateMouseStateForTime between two keyframes
CallInterpolate ==
    /\ calc.op = "interpolate"
    /\ Return(InterpolatedState(calc.args[1], calc.args[2], calc.args[3]))

\* updateMouseStateForTime(time, trajectoryProfile, sortedTimestamps) with
\* the index of the profile
CallUpdateMouseStateForTime ==
    /\ calc.op = "updateMouseStateForTime"
    /\ Return(MouseStateForTime(calc.args[1], calc.args[2], SortAsc(Keys(calc.args[2]))))

NextFunctions ==
    \/ CallBinarySearchTimeIndex
    \/ CallInterpolateAngle
    \/ CallInterpolate
    \/ CallUpdateMouseStateForTime

SpecFunctions == InitFunctions /\ [][NextFunctions]_vars

\* ------------------------------------------------------------------------
\* Types
\* ------------------------------------------------------------------------

TypeOK ==
    /\ engine \in {"DataProvider", "TrajectoryProvider", "RefTrajectoryProvider", "None"}
    /\ store.trajectoryProfile \in Profiles
    /\ store.isPlaying \in BOOLEAN
    /\ store.isLoopEnabled \in BOOLEAN
    /\ store.playbackSpeed \in Int
    /\ currentTimeRef \in Int
    /\ lastTimeRef \in 0..DeltaCap
    /\ tp.currentTimeRef \in Int

\* ------------------------------------------------------------------------
\* Vocabulary of the properties
\* ------------------------------------------------------------------------

\* the pose of the first keyframe of the profile installed in s (the origin
\* pose when it is empty)
FirstKeyframePose(s) ==
    IF Len(s.sortedTimestamps) > 0
    THEN Get(s.trajectoryProfile, s.sortedTimestamps[1])
    ELSE OriginPose

\* the pose of the last keyframe of the profile installed in s
LastKeyframePose(s) ==
    IF Len(s.sortedTimestamps) > 0
    THEN Get(s.trajectoryProfile, Last(s.sortedTimestamps))
    ELSE OriginPose

\* min(max(time, 0), duration)
Clamped(time, duration) == Min(Max(time, 0), duration)

\* the pose of the profile installed in s at the given time
PoseAt(s, time) == MouseStateForTime(time, s.trajectoryProfile, s.sortedTimestamps)

\* the step is a call of stop(), directly or through handleStop
StopStep == Stop \/ HandleStop

\* the step is a call of play(), directly or through togglePlayPause
PlayStep == Play \/ (TogglePlayPause /\ ~rendered.isPlaying)

\* the step is a frame that found the engine playing
PlayingFrame(delta) == Frame(delta) /\ store.isPlaying

\* ------------------------------------------------------------------------
\* C1
\* ------------------------------------------------------------------------

\* C1: in every reachable state the high-rate currentTime lies within
\* [0, duration] of the installed profile.
C1_TimeWithinDuration ==
    engine = "DataProvider" => (0 <= currentTimeRef /\ currentTimeRef <= store.duration)

\* ------------------------------------------------------------------------
\* C2
\* ------------------------------------------------------------------------

\* C2: stop(), in any state, leaves isPlaying false, the high-rate
\* currentTime at 0 and the high-rate pose at the first keyframe's pose.
C2_StopResetsTimeAndPose ==
    [][StopStep => /\ ~store'.isPlaying
                   /\ currentTimeRef' = 0
                   /\ currentMouseStateRef' = FirstKeyframePose(store')]_vars

\* ------------------------------------------------------------------------
\* C3
\* ------------------------------------------------------------------------

\* C3: play() makes the engine Playing, and when it is called with
\* currentTime >= duration > 0 it resets the high-rate currentTime to 0
\* (stated for a run that ended at duration; a time beyond duration is not
\* needed to refute it).
C3_PlayRestartsFromEnd ==
    [][PlayStep => /\ store'.isPlaying
                   /\ (currentTimeRef = store.duration /\ store.duration > 0
                         => currentTimeRef' = 0)]_vars

\* ------------------------------------------------------------------------
\* C4
\* ------------------------------------------------------------------------

\* C4: seekTo(time) sets currentTime to min(max(time, 0), duration) and the
\* pose to the installed profile's pose at that clamped time.
C4_SeekClamps ==
    [][\A t \in SeekTimes, b \in BOOLEAN :
          HandleSeek(t, b) =>
             /\ currentTimeRef' = Clamped(t, store.duration)
             /\ currentMouseStateRef' = PoseAt(store, Clamped(t, store.duration))]_vars

\* ------------------------------------------------------------------------
\* C5
\* ------------------------------------------------------------------------

C6_LoopCarriesOvershoot ==
    [][\A d \in DeltaInputs :
          (PlayingFrame(d) /\ store.isLoopEnabled /\ store.duration > 0
              /\ 0 <= currentTimeRef /\ currentTimeRef < store.duration
              /\ NextTime(d) >= store.duration)
             => /\ currentTimeRef' = NextTime(d) % store.duration
                /\ store'.isPlaying]_vars

\* ------------------------------------------------------------------------
\* C7
\* ------------------------------------------------------------------------

\* C7: setTrajectoryProfile(p), in any state, leaves the index equal to the
\* ascending keys of p, duration equal to p's largest key (0 if empty),
\* isPlaying false, the high-rate currentTime at 0 and the high-rate pose at
\* p's first keyframe pose (the origin pose if p is empty).
C7_InstallResetsEngine ==
    [][\A p \in Profiles :
          SetTrajectoryProfile(p) =>
             /\ store'.trajectoryProfile = p
             /\ store'.sortedTimestamps = SortAsc(Keys(p))
             /\ store'.duration = (IF p = EmptyProfile THEN 0 ELSE Last(SortAsc(Keys(p))))
             /\ ~store'.isPlaying
             /\ currentTimeRef' = 0
             /\ currentMouseStateRef' = FirstKeyframePose(store')]_vars

\* ------------------------------------------------------------------------
\* C8
\* ------------------------------------------------------------------------

\* C8: no subscriber of the store is notified with a state whose profile,
\* index and duration are those of a newly installed profile while its pose
\* (mouseState) is still the one of the profile before.
C8_NoHalfInstalledProfileObserved ==
    \A i \in DOMAIN observed :
        Len(observed[i].sortedTimestamps) > 0
            => observed[i].mouseState = FirstKeyframePose(observed[i])

\* ------------------------------------------------------------------------
\* C9
\* ------------------------------------------------------------------------

\* C9: in every reachable state the high-rate pose is the pose of the
\* installed profile at the high-rate currentTime.
C9_PoseMatchesTime ==
    engine = "DataProvider" => currentMouseStateRef = PoseAt(store, currentTimeRef)

\* ------------------------------------------------------------------------
\* C10
\* ------------------------------------------------------------------------

\* C10: in every reachable state the stored playback speed of the mounted
\* engine lies within [0.1, 10], whatever initialSpeed it was mounted with.
C10_SpeedWithinRange ==
    /\ SpeedMin <= store.playbackSpeed /\ store.playbackSpeed <= SpeedMax
    /\ SpeedMin <= tp.playbackSpeed /\ tp.playbackSpeed <= SpeedMax

\* ------------------------------------------------------------------------
\* C11
\* ------------------------------------------------------------------------

\* C11: handleSeek(value, pauseAfterSeek) leaves isPlaying false when
\* pauseAfterSeek is true and leaves isPlaying as it was when pauseAfterSeek
\* is false; in both cases the playback speed, the loop flag, the duration,
\* the installed profile and its index are unchanged.
C11_SeekPausesOnlyOnRequest ==
    [][\A t \in SeekTimes, b \in BOOLEAN :
          HandleSeek(t, b) =>
             /\ (b => ~store'.isPlaying)
             /\ (~b => store'.isPlaying = store.isPlaying)
             /\ store'.playbackSpeed = store.playbackSpeed
             /\ store'.isLoopEnabled = store.isLoopEnabled
             /\ store'.duration = store.duration
             /\ store'.trajectoryProfile = store.trajectoryProfile
             /\ store'.sortedTimestamps = store.sortedTimestamps]_vars

\* handleSeek(value, false) has just run on a playing engine: the time is the
\* one sought, no store state was set and the engine is still Playing
C11_Witness ==
    /\ engine = "DataProvider"
    /\ calls > 0
    /\ observed = << >>
    /\ store.isPlaying
    /\ currentTimeRef = MaxDuration + SeekOvershoot

\* ------------------------------------------------------------------------
\* C12
\* ------------------------------------------------------------------------

\* the step is a call of pause(), directly or through togglePlayPause
PauseStep == Pause \/ (TogglePlayPause /\ rendered.isPlaying)

C13_EmptyProfileIsInert ==
    [][\A d \in DeltaInputs :
          (/\ Frame(d)
           /\ store.trajectoryProfile = EmptyProfile
           /\ currentTimeRef = 0
           /\ currentMouseStateRef = OriginPose)
             => /\ store'.duration = 0
                /\ ~store'.isPlaying
                /\ currentTimeRef' = 0
                /\ currentMouseStateRef' = OriginPose]_vars

\* ------------------------------------------------------------------------
\* C14
\* ------------------------------------------------------------------------

\* C14: a frame uses the isPlaying, playbackSpeed, isLoopEnabled, duration
\* and profile values the store holds when it runs, that is the values left
\* by the control calls that returned before it: every frame is the step the
\* useFrame callback makes when it reads the store's current values.
C14_FrameSeesCallsBefore ==
    [][\A d \in DeltaInputs :
          (Frame(d) \/ FrameInTask(d)) => FrameStep(store, d)]_vars

\* ------------------------------------------------------------------------
\* C15
\* ------------------------------------------------------------------------

\* C15: whenever a non-empty profile is installed, the pose a Mouse (one
\* without a mouseState prop) applies in a frame is the high-rate pose
\* (currentMouseStateRef), whether the engine is playing, paused or stopped,
\* and not the store's mouseState; stated for both Mouse components, in the
\* states a frame runs in (no control call pending in the running task) and
\* where the high-rate pose is the installed profile's pose at the high-rate
\* time (a stale high-rate pose is not needed to refute it).
C15_MouseShowsCurrentPose ==
    (/\ engine = "DataProvider"
     /\ calls = 0
     /\ Len(store.trajectoryProfile) > 0
     /\ rendered.trajectoryProfile = store.trajectoryProfile
     /\ currentMouseStateRef = PoseAt(store, currentTimeRef))
        => /\ MousePoseWhilePlaying(rendered, NoMouseStateProp) = currentMouseStateRef
           /\ MousePoseWithProfile(rendered, NoMouseStateProp) = currentMouseStateRef

\* ------------------------------------------------------------------------
\* C16
\* ------------------------------------------------------------------------

\* every state in states, the states a store method set when called on st,
\* is st: the call left the store as it was
LeavesAsIs(states, st) == \A i \in DOMAIN states : states[i] = st

\* what handleSeek(value, pauseAfterSeek) leaves in the refs and the store
\* when called with the closure view on the store st
HandleSeekResult(value, pauseAfterSeek, view, st) ==
    [currentTime       |-> value,
     currentMouseState |->
        MouseStateForTime(value, view.trajectoryProfile, view.sortedTimestamps),
     store             |-> IF pauseAfterSeek THEN Last(StorePause(st)) ELSE st]

\* C16: every control operation is idempotent: in every reachable state,
\* play(), pause(), stop(), handleSeek(t, p), setPlaybackSpeed(s) and
\* setLoopEnabled(b) called twice in a row leave isPlaying, the speed, the
\* loop flag, the time and the pose (the whole store, and the refs, which
\* only handleSeek writes) as one call leaves them; play() while Playing
\* changes nothing, in the store engine and in the TrajectoryProvider.
C16_ControlCallsIdempotent ==
    /\ engine = "DataProvider" =>
          /\ LET once == Last(StorePlay(store))
             IN  LeavesAsIs(StorePlay(once), once)
          /\ LET once == Last(StorePause(store))
             IN  LeavesAsIs(StorePause(once), once)
          /\ LET once == Last(StoreStop(store))
             IN  LeavesAsIs(StoreStop(once), once)
          /\ \A sp \in SpeedInputs :
                LET once == Last(StoreSetPlaybackSpeed(store, sp))
                IN  LeavesAsIs(StoreSetPlaybackSpeed(once, sp), once)
          /\ \A b \in BOOLEAN :
                LET once == Last(StoreSetLoopEnabled(store, b))
                IN  LeavesAsIs(StoreSetLoopEnabled(once, b), once)
          /\ \A t \in SeekTimes, p \in BOOLEAN :
                LET once == HandleSeekResult(t, p, rendered, store)
                IN  HandleSeekResult(t, p, rendered, once.store) = once
          /\ store.isPlaying => Last(StorePlay(store)) = store
    /\ engine = "TrajectoryProvider" =>
          /\ TpPlayResult(TpPlayResult(tp)) = TpPlayResult(tp)
          /\ tp.isPlaying => TpPlayResult(tp) = tp

\* play() has just been called on an engine that was Playing (and rendered as
\* Playing) in the middle of a run: the store is as it was
C16_Witness ==
    /\ engine = "DataProvider"
    /\ calls > 0
    /\ rendered.isPlaying /\ store.isPlaying
    /\ observed = << rendered >>
    /\ lastTimeRef > 0

\* ------------------------------------------------------------------------
\* C17
\* ------------------------------------------------------------------------

\* C17: determinism from Stopped.  A freshly mounted engine is Stopped, and
\* so is an engine after stop(); a frame computes the next time from the
\* profile, the speed, the loop flag, currentTimeRef and lastTimeRef.  Two
\* runs from Stopped with the same profile, speed and loop flag and the same
\* play / frame sequence therefore show the same times only if stop(), after
\* whatever came before, leaves currentTimeRef and lastTimeRef as mounting
\* the installed profile leaves them (stated for a stop() called with the time
\* within [0, duration] and the pose of that time; a stale or out-of-range
\* clock is not needed to refute it).
C17_StoppedClockIsTheMountedClock ==
    [][(/\ StopStep
        /\ 0 <= currentTimeRef /\ currentTimeRef <= store.duration
        /\ currentMouseStateRef = PoseAt(store, currentTimeRef))
          => /\ ~store'.isPlaying
             /\ currentTimeRef' = MountTime(store'.trajectoryProfile)
             /\ lastTimeRef' = 0]_vars

\* ------------------------------------------------------------------------
\* C18
\* ------------------------------------------------------------------------

\* C18: for a non-empty strictly ascending array and any query time,
\* binarySearchTimeIndex returns 0 when time <= timestamps[0], the last index
\* when time >= timestamps[last], and otherwise the index i with
\* timestamps[i] <= time < timestamps[i + 1]; it never reaches its last
\* line, return 0.
C18_LocateReturnsBracket ==
    (calc.op = "binarySearchTimeIndex" /\ calc.result # << >>) =>
        LET timestamps == calc.args[1]
            time       == calc.args[2]
            i          == calc.result[1]
            last       == Len(timestamps) - 1
        IN  /\ i \in 0 .. last
            /\ time <= At0(timestamps, 0) => i = 0
            /\ time >= At0(timestamps, last) => i = last
            /\ (At0(timestamps, 0) < time /\ time < At0(timestamps, last))
                  => /\ At0(timestamps, i) <= time
                     /\ time < At0(timestamps, i + 1)
            /\ ~FallsThrough(timestamps, time)

\* the search returned an index that is neither the first nor the last, for
\* a time strictly between two timestamps of the longest array
C18_Witness ==
    /\ calc.op = "binarySearchTimeIndex"
    /\ calc.result # << >>
    /\ Len(calc.args[1]) = MaxStamps
    /\ calc.result[1] > 0
    /\ calc.result[1] < Len(calc.args[1]) - 2
    /\ At0(calc.args[1], calc.result[1]) < calc.args[2]

\* ------------------------------------------------------------------------
\* C19
\* ------------------------------------------------------------------------

\* the shortest signed difference from the heading a1 to the heading a2
\* (whole degrees), in [-PI, PI)
ShortestDiff(a1, a2) == ((a2 - a1 + PI) % (2 * PI)) - PI

\* the headings x and y differ by a whole number of turns
SameDirection(x, y) ==
    LET d == FSub(x, y)
    IN  d.d = 1 /\ d.n % (2 * PI) = 0

\* C19: for every two headings, normalised or not, and every t in [0, 1],
\* the difference interpolateAngle moves by lies within [-PI, PI], and the
\* heading it returns is a1 moved by t times the shortest signed difference
\* from a1 to a2 (up to whole turns; half a turn may go either way).
C19_InterpolatesAlongShortestArc ==
    (calc.op = "interpolateAngle" /\ calc.result # << >>) =>
        LET a1    == calc.args[1]
            a2    == calc.args[2]
            t     == calc.args[3]
            delta == ShortestDiff(a1.n, a2.n)
        IN  /\ FLeq(Int2Frac(-PI), AngleDiff(a1, a2))
            /\ FLeq(AngleDiff(a1, a2), Int2Frac(PI))
            /\ \/ SameDirection(calc.result[1], FAdd(a1, FMul(Int2Frac(delta), t)))
               \/ /\ delta = -PI
                  /\ SameDirection(calc.result[1], FAdd(a1, FMul(Int2Frac(PI), t)))

\* ------------------------------------------------------------------------
\* C20
\* ------------------------------------------------------------------------

\* the heading a lies in [-PI, PI)
Normalised(a) == FLeq(Int2Frac(-PI), a) /\ FLess(a, Int2Frac(PI))

\* the timestamp of the interior keyframe of ThreeKeyframes, and the one
\* after it
InteriorTime == ThreeKeyframes(0, 0)[1].time

NextKeyframeTime == ThreeKeyframes(0, 0)[2].time

\* the pose is the keyframe's stored pose, position and heading
ExactlyThePose(pose, keyframe) == pose = keyframe

\* the pose has the keyframe's stored position and faces the keyframe's
\* direction; its heading is the stored one when the headings of both
\* keyframes interpolated between lie in [-PI, PI)
SamePose(pose, keyframe, other) ==
    /\ pose.position = keyframe.position
    /\ SameDirection(pose.angle, keyframe.angle)
    /\ (Normalised(keyframe.angle) /\ Normalised(other.angle))
          => pose.angle = keyframe.angle

\* the cases of C20 the call that returned is: each the pose returned, the
\* keyframe whose pose it is to be, and the other keyframe interpolated with
EndCases ==
    IF calc.result = << >> THEN {}
    ELSE IF calc.op = "interpolate"
         THEN LET before == calc.args[1]
                  after  == calc.args[2]
                  t      == calc.args[3]
              IN  IF t = Frac(0, 1) THEN {<< calc.result[1], before, after >>}
                  ELSE IF t = Frac(1, 1) THEN {<< calc.result[1], after, before >>}
                  ELSE {}
    ELSE IF calc.op = "updateMouseStateForTime" /\ calc.args[1] = InteriorTime
         THEN {<< calc.result[1], Get(calc.args[2], InteriorTime),
                  Get(calc.args[2], NextKeyframeTime) >>}
    ELSE {}

\* C20 as stated: for every two keyframes, the interpolation at t = 0
\* returns exactly the pose before (position and heading), at t = 1 exactly
\* the pose after, and a seek to the timestamp of an interior keyframe
\* yields that keyframe's stored position and heading.
C20_InterpolationEndsExact ==
    \A c \in EndCases : ExactlyThePose(c[1], c[2])

\* C20: for every two keyframes, the interpolation at t = 0 returns the
\* position of the pose before and at t = 1 the position of the pose after,
\* exactly; the heading returned is the stored heading up to whole turns
\* (it is normalised), and is exactly the stored heading when both headings
\* lie in [-PI, PI); the same holds for a seek to the timestamp of an
\* interior keyframe.
C20_InterpolationEndsSamePose ==
    \A c \in EndCases : SamePose(c[1], c[2], c[3])

\* the interpolation at t = 1 towards a keyframe stored with the heading PI
\* returned the keyframe's position with the heading -PI
C20_Witness ==
    /\ calc.op = "interpolate"
    /\ calc.result # << >>
    /\ calc.args[3] = Frac(1, 1)
    /\ calc.args[2].angle = Int2Frac(PI)
    /\ calc.result[1].position = calc.args[2].position
    /\ calc.result[1].angle = Int2Frac(-PI)

\* ------------------------------------------------------------------------
\* C21
\* ------------------------------------------------------------------------

\* a + (b - a) * f
Lerp(a, b, f) == FAdd(a, FMul(FSub(b, a), f))

\* C21: for a non-empty profile with ascending keys k0 < ... < kn and every
\* time t, updateMouseStateForTime computes the first keyframe's pose
\* unmodified when t <= k0, the last keyframe's pose unmodified when
\* t >= kn, and otherwise, with ki <= t < ki+1 and f = (t - ki)/(ki+1 - ki),
\* the position p_i + (p_i+1 - p_i) * f in each component.
C21_PoseOfTime ==
    (calc.op = "updateMouseStateForTime" /\ calc.result # << >>) =>
        LET time    == calc.args[1]
            profile == calc.args[2]
            k       == AscendingSeq({profile[i].time : i \in DOMAIN profile})
            pose    == calc.result[1]
        IN  /\ time <= k[1] => pose = Get(profile, k[1])
            /\ time >= Last(k) => pose = Get(profile, Last(k))
            /\ \A i \in 1 .. Len(k) - 1 :
                  (k[i] <= time /\ time < k[i + 1]) =>
                      LET f  == Frac(time - k[i], k[i + 1] - k[i])
                          p0 == Get(profile, k[i]).position
                          p1 == Get(profile, k[i + 1]).position
                      IN  /\ pose.position.x = Lerp(p0.x, p1.x, f)
                          /\ pose.position.y = Lerp(p0.y, p1.y, f)

\* the pose of a time half-way between the second keyframe, at (1, 2), and
\* the third, at (0, 1), was computed: its position is (1/2, 3/2)
C21_Witness ==
    /\ calc.op = "updateMouseStateForTime"
    /\ calc.result # << >>
    /\ calc.args[1] = InteriorTime + 1
    /\ calc.result[1].position = [x |-> Frac(1, 2), y |-> Frac(3, 2)]

\* ------------------------------------------------------------------------
\* C22
\* ------------------------------------------------------------------------

\* the keys of the profile in ascending order
AscendingKeys(profile) == AscendingSeq({profile[i].time : i \in DOMAIN profile})

\* sortedTimestamps is the index of the profile and duration its last
\* element, 0 when it is empty
IndexOf(profile, sortedTimestamps, duration) ==
    /\ \A i \in 1 .. Len(sortedTimestamps) - 1 :
          sortedTimestamps[i] < sortedTimestamps[i + 1]
    /\ sortedTimestamps = AscendingKeys(profile)
    /\ duration = IF Len(sortedTimestamps) > 0 THEN Last(sortedTimestamps) ELSE 0

\* C22: in every reachable state the cached timestamp index is strictly
\* ascending and holds exactly the keys of the profile currently installed,
\* and duration is its last element (0 when it is empty): in the store,
\* after setTrajectoryProfile and after clearAll, and in a provider, also
\* after the profile handed to it has been replaced by another.
C22_IndexMatchesInstalledProfile ==
    /\ IndexOf(store.trajectoryProfile, store.sortedTimestamps, store.duration)
    /\ IndexOf(tp.trajectoryProfile, TpSortedTimestamps, TpDuration)
    /\ IndexOf(refProvider.trajectoryProfile, refProvider.sortedTimestampsRef,
               refProvider.durationRef)

\* ------------------------------------------------------------------------
\* C23
\* ------------------------------------------------------------------------

\* C23: one advance while Playing moves the time forward by at most 0.1 s
\* times the speed, whatever delta the host reports, and an advance that
\* stays below the duration (no wrap, no end of run) never moves it
\* backward: for the frame callback of the store engine and for animate of
\* the TrajectoryProvider.
C23_AdvanceIsCapped ==
    [][/\ \A d \in DeltaInputs :
            (Frame(d) /\ rendered.isPlaying) =>
               /\ currentTimeRef' - currentTimeRef
                     <= Scaled(DeltaCap, rendered.playbackSpeed)
               /\ NextTime(d) < rendered.duration => currentTimeRef' >= currentTimeRef
       /\ \A d \in DeltaInputs, b \in BOOLEAN :
            TpAnimate(d, b) =>
               /\ tp'.currentTimeRef - tp.currentTimeRef
                     <= Scaled(DeltaCap, tp.playbackSpeed)
               /\ tp.currentTimeRef + Scaled(d, tp.playbackSpeed) < TpDuration
                     => tp'.currentTimeRef >= tp.currentTimeRef]_vars

\* ------------------------------------------------------------------------
\* C24
\* ------------------------------------------------------------------------

\* C24: setPlaybackSpeed(s), called on the store, through handleSpeedChange
\* or on the TrajectoryProvider, changes the stored speed only: isPlaying,
\* the time, the pose, the loop flag, the duration and the profile are
\* after the call what they were before it (the pose of the
\* TrajectoryProvider is computed from its time and its profile).
C24_SetSpeedChangesSpeedOnly ==
    [][/\ \A sp \in SpeedInputs :
            (SetPlaybackSpeed(sp) \/ HandleSpeedChange(sp)) =>
               /\ store' = [store EXCEPT !.playbackSpeed = store'.playbackSpeed]
               /\ UNCHANGED << currentTimeRef, currentMouseStateRef, lastTimeRef >>
       /\ \A sp \in SpeedInputs :
            TpSetSpeed(sp) =>
               tp' = [tp EXCEPT !.playbackSpeed = tp'.playbackSpeed]]_vars

\* the speed has just been changed in the middle of a run: the store the
\* components rendered differs from the store in the speed only, and the
\* engine is still Playing at the time it had reached
C24_Witness ==
    /\ engine = "DataProvider"
    /\ calls > 0
    /\ store.isPlaying
    /\ store.playbackSpeed # rendered.playbackSpeed
    /\ store = [rendered EXCEPT !.playbackSpeed = store.playbackSpeed]
    /\ observed = << store >>
    /\ currentTimeRef > 0
    /\ lastTimeRef > 0

\* ------------------------------------------------------------------------
\* C25
\* ------------------------------------------------------------------------

\* the currentTime usePlaybackControls exposes is the high-rate currentTime
Mirrored == ui.currentTime = currentTimeRef

\* C25: the interval refreshes the mirrored currentTime from the high-rate
\* currentTime: while the interval keeps firing the mirrored value equals
\* the high-rate one again and again, and once it is equal it stays equal
\* over every step that is neither an advance nor a seek (no step that
\* leaves the high-rate time alone makes them differ), a call of handleStop
\* included.
C25_MirrorFollowsHighRateTime ==
    /\ []<>Mirrored
    /\ [][(Mirrored /\ currentTimeRef' = currentTimeRef) => Mirrored']_vars

\* ------------------------------------------------------------------------
\* C26
\* ------------------------------------------------------------------------

\* C26: if the store engine is Playing without loop on a profile of
\* duration > 0 (the components rendered, no call waiting) and frames keep
\* arriving with delta > 0, then the run ends, not Playing with currentTime
\* = duration, unless a control call is made first.
C26_RunEnds ==
    (/\ engine = "DataProvider"
     /\ Quiescent
     /\ store.isPlaying
     /\ ~store.isLoopEnabled
     /\ store.duration > 0)
       ~> \/ ~store.isPlaying /\ currentTimeRef = store.duration
          \/ calls > 0

\* a run of ProfileA at the lowest speed has ended and the components have
\* rendered since: the engine rests at duration
C26_Witness ==
    /\ engine = "DataProvider"
    /\ Quiescent
    /\ store.trajectoryProfile = ProfileA
    /\ store.playbackSpeed = SpeedMin
    /\ ~store.isPlaying /\ ~store.isLoopEnabled
    /\ currentTimeRef = store.duration
    /\ currentMouseStateRef = LastKeyframePose(store)
    /\ lastTimeRef = 0

\* ------------------------------------------------------------------------
\* C27
\* ------------------------------------------------------------------------

\* C27: in every quiescent state (the handler has returned, the components
\* have rendered and the sync effect has run) the isPlaying, playbackSpeed
\* and isLoopEnabled that usePlaybackControls exposes are those of the
\* store, whatever togglePlayPause, handleStop, handleSeek,
\* handleSpeedChange(s), handleLoopToggle calls and end-of-run pauses came
\* before.
C27_DisplayMatchesStore ==
    (engine = "DataProvider" /\ Quiescent) =>
        /\ ui.isPlaying = store.isPlaying
        /\ ui.playbackSpeed = store.playbackSpeed
        /\ ui.isLoopEnabled = store.isLoopEnabled

\* ------------------------------------------------------------------------
\* C28
\* ------------------------------------------------------------------------

\* C28: togglePlayPause always inverts the play state the store holds when
\* it is called, and handleLoopToggle the loop flag the store holds, also
\* when the call comes before the components have re-rendered with the
\* result of the call before (so that two calls in a row restore the value).
C28_ToggleInvertsStoreValue ==
    [][/\ TogglePlayPause => store'.isPlaying = ~store.isPlaying
       /\ HandleLoopToggle => store'.isLoopEnabled = ~store.isLoopEnabled]_vars

\* ------------------------------------------------------------------------
\* C29
\* ------------------------------------------------------------------------

\* a store call takes the engine from Paused or Stopped to Playing
EntersPlaying ==
    /\ engine = "DataProvider"
    /\ ~store.isPlaying
    /\ store'.isPlaying

\* the frame callback running with nothing remembered of the frame before
FirstAdvance(delta) ==
    /\ Frame(delta)
    /\ rendered.isPlaying
    /\ lastTimeRef = 0

\* the frame callback wrapping the time of a looping run
LoopWrap(delta) ==
    /\ Frame(delta)
    /\ rendered.isPlaying
    /\ rendered.isLoopEnabled
    /\ NextTime(delta) >= rendered.duration

\* C29: the first advance after the engine enters Playing and the first
\* advance after a loop wrap integrate zero elapsed time: the engine enters
\* Playing and leaves a loop wrap with nothing remembered of the frame
\* before (lastTimeRef = 0), and a frame that remembers nothing leaves
\* currentTime as it was whatever dt is reported (short of the end of the
\* run, where the time is clamped or wrapped).
C29_FirstAdvanceIntegratesZero ==
    [][/\ EntersPlaying => lastTimeRef' = 0
       /\ \A d \in DeltaInputs :
             /\ LoopWrap(d) => lastTimeRef' = 0
             /\ (FirstAdvance(d) /\ currentTimeRef < rendered.duration)
                    => currentTimeRef' = currentTimeRef]_vars

\* ------------------------------------------------------------------------
\* C30
\* ------------------------------------------------------------------------

\* C30: clearAll returns the whole engine to its freshly initialised state:
\* after it the store is the initial store (empty profile and index,
\* duration 0, not playing, speed 1, loop off) and the high-rate cell holds
\* currentTime 0 and the origin pose, whatever the state before.
C30_ClearAllResetsEngine ==
    [][ClearAll => /\ store' = InitialStore
                   /\ currentTimeRef' = 0
                   /\ currentMouseStateRef' = OriginPose]_vars

====
